---- MODULE Spec2Model ----
(***************************************************************************)
(* The market freshness/caching engine of src/api/market.py: the response  *)
(* cache in front, the freshness decision on the sqlite store, the         *)
(* paginated fetch from ESI and the upsert of what was fetched.            *)
(*                                                                         *)
(* Time is in seconds, as time.time() gives it.  A DataFrame is a sequence *)
(* of rows (records); Python's None is the value None below.               *)
(***************************************************************************)
EXTENDS Integers, Sequences, FiniteSets, TLC

VARIABLES
    now,             \* time.time()
    gen,             \* the remote market's generation: ESI's data changes over time
    orders,          \* the rows of table "orders"
    market_history,  \* the rows of table "market_history"
    api_cache,       \* the entries of api_cache
    last,            \* what the most recent orchestrator call did and returned
    written,         \* per order_id, the row most recently handed to the orders upsert
    hist,            \* the bulk history call in progress (its tasks), or idle
    firstWritten,    \* per history key, the row of the first successful write
    family           \* the calls this run makes, see Families

vars == <<now, gen, orders, market_history, api_cache, last, written, hist,
          firstWritten, family>>

----------------------------------------------------------------------------
(* Bounds of the model *)

\* the remote market is observed in generations 0..MaxGen
MaxGen == 1
\* the clock advances in steps of TickStep seconds, at most MaxTicks times
TickStep == 600
MaxTicks == 2
\* and in steps of HistoryTick, at most MaxHistoryTicks times, for the history
MaxHistoryTicks == 1
\* min_fresh_entry, 1000 in every call of _update_or_not (market.py:97, 234, 343),
\* scaled down so that a snapshot of that many rows fits the model
MinFreshEntry == 2
\* records per page of the remote source
PageSize == 2
\* the highest page number a call asks for or a failure strikes
MaxPage == 2

(* Program constants *)

\* the default update_threshold and the default TTL of the cache, 20 minutes
DefaultThreshold == 1200
\* ESI renews its orders every 5 minutes: the Expires header of a HEAD
EsiOrdersTtl == 300

----------------------------------------------------------------------------
(* Python values *)

None == [isNone |-> TRUE, df |-> <<>>]
Some(df) == [isNone |-> FALSE, df |-> df]

\* kwd: a dict of keyword arguments, as a set of <<name, value>> pairs
KwdHas(kwd, name) == \E p \in kwd : p[1] = name
\* kwd.get(name, default)
KwdGet(kwd, name, default) ==
    IF KwdHas(kwd, name) THEN (CHOOSE p \in kwd : p[1] = name)[2] ELSE default

\* a type_id left out (None) in a call
NoType == -1

RECURSIVE SeqToSet(_)
SeqToSet(s) == IF s = <<>> THEN {} ELSE {Head(s)} \cup SeqToSet(Tail(s))

RECURSIVE Concat(_)
\* the concatenation of a sequence of sequences
Concat(ss) == IF ss = <<>> THEN <<>> ELSE Head(ss) \o Concat(Tail(ss))

B2I(b) == IF b THEN 1 ELSE 0

----------------------------------------------------------------------------
(* The remote source (ESI) *)

RegionId == 10
StationId == 60
OtherStationId == 61
StructureId == 100

\* the orders ESI lists for the region in generation g; prices and volumes move
RemoteRegionOrders(g) ==
    << [order_id |-> 1, type_id |-> 1, location_id |-> StationId,
        is_buy_order |-> FALSE, price |-> 10 + g, volume_remain |-> 9 - g,
        duration |-> 30 * (g + 1)],
       [order_id |-> 2, type_id |-> 2, location_id |-> StationId,
        is_buy_order |-> TRUE, price |-> 20 + g, volume_remain |-> 8 - g,
        duration |-> 30 * (g + 1)],
       [order_id |-> 3, type_id |-> 1, location_id |-> OtherStationId,
        is_buy_order |-> TRUE, price |-> 5 + g, volume_remain |-> 7 - g,
        duration |-> 30 * (g + 1)] >>

\* the orders ESI lists for the structure in generation g
RemoteStructureOrders(g) ==
    << [order_id |-> 4, type_id |-> 1, location_id |-> StructureId,
        is_buy_order |-> FALSE, price |-> 30 + g, volume_remain |-> 6 - g,
        duration |-> 30 * (g + 1)],
       [order_id |-> 5, type_id |-> 2, location_id |-> StructureId,
        is_buy_order |-> FALSE, price |-> 40 + g, volume_remain |-> 5 - g,
        duration |-> 30 * (g + 1)] >>

\* the side filter of /markets/{region_id}/orders/ and of _select_from_orders
SideMatches(order_type, r) ==
    \/ order_type = "all"
    \/ order_type = "buy" /\ r.is_buy_order
    \/ order_type = "sell" /\ ~r.is_buy_order

TypeMatches(type_id, r) == type_id = NoType \/ r.type_id = type_id

\* what /markets/{region_id}/orders/ lists under the request's filters
RemoteRegionListing(g, order_type, type_id) ==
    LET Keep(r) == SideMatches(order_type, r) /\ TypeMatches(type_id, r)
    IN  SelectSeq(RemoteRegionOrders(g), Keep)

\* the X-Pages header: the number of pages of a listing (1 for an empty one)
XPages(listing) ==
    IF Len(listing) = 0 THEN 1 ELSE (Len(listing) + PageSize - 1) \div PageSize

\* page p of a listing
PageOf(listing, p) ==
    SubSeq(listing, (p - 1) * PageSize + 1,
           IF p * PageSize < Len(listing) THEN p * PageSize ELSE Len(listing))

\* X-Pages and Expires, the headers ESIClient.head reads for the orders endpoints
OrdersHeaders(listing, t) == [x_pages |-> XPages(listing), expires |-> t + EsiOrdersTtl]

----------------------------------------------------------------------------
(* The store: tables "orders" and "market_history" of ESIDB, each a set of rows *)

\* a filter of _update_or_not and of _select_from_orders: a set of
\* <<column, value>> pairs, all of which a matching row satisfies
RowMatches(r, filter) ==
    \A f \in filter :
        \/ f[1] = "region_id" /\ r.region_id = f[2]
        \/ f[1] = "location_id" /\ r.location_id = f[2]
        \/ f[1] = "type_id" /\ r.type_id = f[2]

\* the value of the timestamp column of a row
Stamp(r, column) == IF column = "retrieve_time" THEN r.retrieve_time ELSE r.date

SetMax(S) == CHOOSE x \in S : \A y \in S : y <= x

\* _update_or_not(threshold, table, column, min_fresh_entry, fresh_entry_check, **filter):
\* (update_flag, retrieve_time) of the rows of the table that match the filter
UpdateOrNot(threshold, table, column, min_fresh_entry, fresh_entry_check, filter) ==
    LET match == {r \in table : RowMatches(r, filter)}
    IN  IF match = {} THEN [update_flag |-> TRUE, retrieve_time |-> None]
        ELSE LET m == SetMax({Stamp(r, column) : r \in match})
                 fresh == {r \in match : Stamp(r, column) = m}
             IN  IF m < threshold
                 THEN [update_flag |-> TRUE, retrieve_time |-> Some(m)]
                 ELSE IF fresh_entry_check /\ Cardinality(fresh) < min_fresh_entry
                 THEN [update_flag |-> TRUE, retrieve_time |-> Some(m)]
                 ELSE [update_flag |-> FALSE, retrieve_time |-> Some(m)]

\* the order df.sort_values(["type_id", "is_buy_order", "price"]) sorts by
OrderLess(a, b) ==
    \/ a.type_id < b.type_id
    \/ a.type_id = b.type_id /\ B2I(a.is_buy_order) < B2I(b.is_buy_order)
    \/ a.type_id = b.type_id /\ a.is_buy_order = b.is_buy_order /\ a.price < b.price

RECURSIVE InsertSorted(_, _)
\* x put into the sorted sequence s, behind the elements it does not precede
InsertSorted(x, s) ==
    IF s = <<>> THEN <<x>>
    ELSE IF OrderLess(x, Head(s)) THEN <<x>> \o s
    ELSE <<Head(s)>> \o InsertSorted(x, Tail(s))

RECURSIVE SortFrom(_, _)
SortFrom(s, acc) ==
    IF s = <<>> THEN acc ELSE SortFrom(Tail(s), InsertSorted(Head(s), acc))

\* df.sort_values(["type_id", "is_buy_order", "price"], ascending=True)
SortValues(df) == SortFrom(df, <<>>)

RECURSIVE SetToSeq(_)
\* the rows of a result set as a DataFrame, in rowid (order_id) order
SetToSeq(S) ==
    IF S = {} THEN <<>>
    ELSE LET r == CHOOSE x \in S : \A y \in S : x.order_id <= y.order_id
         IN  <<r>> \o SetToSeq(S \ {r})

\* _select_from_orders(order_type, type_id, **filter, retrieve_time=...): the rows
\* of the side, of the type, matching the filter and, when a retrieve_time is
\* given, of that retrieve_time
SelectFromOrders(table, order_type, type_id, filter, retrieve_time) ==
    SetToSeq({r \in table :
        /\ SideMatches(order_type, r)
        /\ TypeMatches(type_id, r)
        /\ RowMatches(r, filter)
        /\ (retrieve_time.isNone \/ r.retrieve_time = retrieve_time.df)})

\* ESIDB.orders_insert_update of one row: insert, or on a row of the same
\* order_id overwrite its mutable fields
OrdersUpsertRow(table, r) ==
    IF \E x \in table : x.order_id = r.order_id
    THEN {IF x.order_id = r.order_id
          THEN [x EXCEPT !.price = r.price, !.volume_remain = r.volume_remain,
                         !.duration = r.duration, !.retrieve_time = r.retrieve_time]
          ELSE x : x \in table}
    ELSE table \cup {r}

RECURSIVE OrdersInsertUpdate(_, _)
\* ESIDB.orders_insert_update over the rows of a DataFrame, in order
OrdersInsertUpdate(table, df) ==
    IF df = <<>> THEN table
    ELSE OrdersInsertUpdate(OrdersUpsertRow(table, Head(df)), Tail(df))

----------------------------------------------------------------------------
(* api_cache: a set of entries [key, value, expires_at], one per key *)

\* make_cache_key(func, *args, **kwd): the operation, its positional arguments in
\* call order, its keyword arguments by name
MakeCacheKey(func, args, kwd) == <<func, args, kwd>>

\* the expiry handed to api_cache.set: a TTL in seconds, the instant of an
\* Expires header, or nothing
Ttl(n) == [kind |-> "ttl", at |-> n]
ExpiresAt(t) == [kind |-> "at", at |-> t]

\* a get that does not look at expires_at
CacheGetUnexpiring(cache, key, t) ==
    IF \E e \in cache : e.key = key
    THEN (CHOOSE e \in cache : e.key = key).value
    ELSE None

\* api_cache.get(key): the value of the entry under key unless it has expired
CacheGet(cache, key, t) ==
    IF \E e \in cache : e.key = key /\ t <= e.expires_at
    THEN (CHOOSE e \in cache : e.key = key).value
    ELSE None

\* whether the cache holds an entry under key that has not expired
CacheHas(cache, key, t) == \E e \in cache : e.key = key /\ t <= e.expires_at

\* api_cache.set(key, value, expires)
CacheSet(cache, key, value, expires, t) ==
    LET at == CASE expires.kind = "ttl" -> t + expires.at
                [] expires.kind = "at" -> expires.at
                [] OTHER -> t + DefaultThreshold
    IN  {e \in cache : e.key # key}
            \cup {[key |-> key, value |-> value, expires_at |-> at]}

----------------------------------------------------------------------------
(* The orchestrators of the orders tables.  Each takes the state it reads *)
(* (the time t, the remote generation g, the table, the cache) and its    *)
(* inputs, and gives the state it leaves and what it did:                 *)
(*   status, error   "ok", or "error" and the exception raised            *)
(*   value           the value returned                                   *)
(*   hit             the value came from api_cache                        *)
(*   consulted       _update_or_not was called; update_flag, retrieve_time *)
(*                   are what it returned                                 *)
(*   lookups         the name-resolution lookups made                     *)
(*   heads           the HEAD requests (metadata probes) made             *)
(*   requests        the pages requested with GET, in order               *)
(*   upserted        the DataFrame handed to to_sql (wrote: to_sql ran)   *)
(*   read            rows were selected from the store                    *)
(*   changed         the table is not as it was before the call           *)
(*   found           api_cache held an unexpired entry under the key      *)
(*   cached          api_cache.set ran                                    *)

Obs(op, key) ==
    [op |-> op, key |-> key, status |-> "ok", error |-> "", value |-> None,
     hit |-> FALSE, consulted |-> FALSE, update_flag |-> FALSE,
     retrieve_time |-> None, lookups |-> 0, heads |-> 0, requests |-> <<>>,
     upserted |-> <<>>, wrote |-> FALSE, read |-> FALSE, changed |-> FALSE,
     found |-> FALSE, cached |-> FALSE]

Outcome(table, cache, obs) == [table |-> table, api_cache |-> cache, obs |-> obs]

Raise(obs, error) == [obs EXCEPT !.status = "error", !.error = error]

\* the pages 1..n in ascending order
PageRange(n) == [i \in 1..n |-> i]

\* the orders in which the requests of the pages in the sequence ps can complete
CompletionOrders(ps) ==
    {q \in [1..Len(ps) -> SeqToSet(ps)] : \A i, j \in 1..Len(ps) : q[i] = q[j] => i = j}

\* df.to_sql("orders", if_exists="append") without the upsert method: plain INSERT
OrdersToSqlAppend(table, df) == table \cup SeqToSet(df)

\* df.to_sql("orders", if_exists="append", method=ESIDB.orders_insert_update)
OrdersToSql(table, df) == OrdersInsertUpdate(table, df)

\* a call that returns without api_cache.set
StoreResultSkipped(cache, key, value, expires, t) == cache

\* api_cache.set(key, df, expires), the last statement of a call before its return
StoreResult(cache, key, value, expires, t) == CacheSet(cache, key, value, expires, t)

\* ESIClient.get over the pages ps of a listing, completing in the order perm:
\* the records of the pages.  When the request of page fail fails, or a page
\* does not exist, the call raises a transport error (ok is FALSE; records are
\* those of the pages that were answered, which the caller never sees)
EsiGetPages(listing, ps, perm, fail) ==
    LET Answered(p) == p # fail /\ p >= 1 /\ p <= XPages(listing)
        answered == SelectSeq(perm, Answered)
    IN  [ok |-> \A i \in 1..Len(ps) : Answered(ps[i]),
         records |-> Concat([i \in 1..Len(answered) |-> PageOf(listing, answered[i])])]

\* lines 121-135 and 262-273: the records as a DataFrame with retrieve_time and
\* region_id, sorted
OrdersFrame(records, t, region_id) ==
    SortValues([i \in 1..Len(records) |->
                 [order_id |-> records[i].order_id,
                  type_id |-> records[i].type_id,
                  region_id |-> region_id,
                  location_id |-> records[i].location_id,
                  is_buy_order |-> records[i].is_buy_order,
                  price |-> records[i].price,
                  volume_remain |-> records[i].volume_remain,
                  duration |-> records[i].duration,
                  retrieve_time |-> t]])

\* the pages upserted as they are answered, before the failure of one is seen
PersistOrdersByPage(t, table, cache, obs, key, got, expires, region_id) ==
    LET df == OrdersFrame(got.records, t, region_id)
        after == OrdersToSql(table, df)
    IN  IF ~got.ok
        THEN Outcome(after, cache,
                     Raise([obs EXCEPT !.upserted = df, !.wrote = (df # <<>>),
                                       !.changed = (after # table)],
                           "TransportError"))
        ELSE IF got.records = <<>> THEN Outcome(table, cache, Raise(obs, "KeyError"))
        ELSE Outcome(after, StoreResult(cache, key, Some(df), expires, t),
                     [obs EXCEPT !.upserted = df, !.wrote = TRUE, !.cached = TRUE,
                                 !.changed = (after # table), !.value = Some(df)])

\* lines 113-146 and 252-284: what follows the requests.  got is what
\* ESIClient.get gave; if it raised, the call ends there.  Otherwise the records
\* are upserted into "orders" and cached under key
PersistOrders(t, table, cache, obs, key, got, expires, region_id) ==
    LET df == OrdersFrame(got.records, t, region_id)
        after == OrdersToSql(table, df)
    IN  IF ~got.ok THEN Outcome(table, cache, Raise(obs, "TransportError"))
        \* an empty DataFrame has no column "type_id" to sort by
        ELSE IF got.records = <<>> THEN Outcome(table, cache, Raise(obs, "KeyError"))
        ELSE Outcome(after, StoreResult(cache, key, Some(df), expires, t),
                     [obs EXCEPT !.upserted = df, !.wrote = TRUE, !.cached = TRUE,
                                 !.changed = (after # table), !.value = Some(df)])

\* the records of the page answered first taken for the whole listing
FetchOrdersFirstAnswered(t, table, cache, obs, key, listing, page, x_pages, expires, region_id, perm, fail) ==
    LET pages == IF page = -1 THEN PageRange(x_pages) ELSE <<page>>
        first == IF page = -1 THEN <<perm[1]>> ELSE pages
        got == EsiGetPages(listing, first, first, fail)
    IN  PersistOrders(t, table, cache, [obs EXCEPT !.requests = pages], key, got,
                      expires, region_id)

\* `range(1, x_pages)` in place of `range(1, x_pages + 1)`
PagesUpTo(page, x_pages) ==
    IF page = -1 THEN PageRange(x_pages - 1) ELSE <<page>>

\* lines 105-110 and 244-250: the pages to request: 1..X-Pages when kwd has no
\* "page", the one page it names otherwise
Pages(page, x_pages) ==
    IF page = -1 THEN PageRange(x_pages) ELSE <<page>>

\* lines 104-118 and 243-259: the pages of the fetch path of an orders call are
\* requested: all of them, or the one page asked for
FetchOrders(t, table, cache, obs, key, listing, page, x_pages, expires, region_id, perm, fail) ==
    LET pages == Pages(page, x_pages)
        got == EsiGetPages(listing, pages, IF page = -1 THEN perm ELSE pages, fail)
    IN  PersistOrders(t, table, cache, [obs EXCEPT !.requests = pages], key, got,
                      expires, region_id)

\* the threshold of the oracle taken as 1200 whatever kwd gives
UpdateThresholdDefault(given) == DefaultThreshold

\* `if update_threshold > 0:` in place of `if update_threshold:`
UpdateThresholdIfPositive(given) == IF given > 0 THEN given ELSE DefaultThreshold

\* lines 85-90 and 222-227: the update_threshold a call decides with; given is
\* kwd.get("update_threshold"), 0 when there is none (`if update_threshold:`)
UpdateThreshold(given) == IF given # 0 THEN given ELSE DefaultThreshold

\* the Fresh path reading the slice whatever its retrieve_time
FreshReadAnyTime(table, order_type, type_id, filter, retrieve_time) ==
    Some(SelectFromOrders(table, order_type, type_id, filter, None))

\* lines 100-102 and 237-241: the Fresh path reads the rows of the slice that
\* have the retrieve_time _update_or_not gave
FreshRead(table, order_type, type_id, filter, retrieve_time) ==
    Some(SelectFromOrders(table, order_type, type_id, filter, retrieve_time))

\* get_structure_market(structure_name_or_id, cname, **kwd).  arg is the first
\* argument with its Python type; cname is "" when left out
GetStructureMarket(t, g, table, cache, arg, cname, kwd, perm, fail) ==
    LET obs0 == Obs("get_structure_market", <<>>)
    IN  IF arg.type \notin {"str", "int"}
        THEN Outcome(table, cache, Raise(obs0, "TypeError"))
        ELSE IF arg.type = "str" /\ cname = ""
        THEN Outcome(table, cache, Raise(obs0, "ValueError"))
        ELSE
        LET sid == arg.id
            listing == RemoteStructureOrders(g)
            headers == OrdersHeaders(listing, t)
            key == MakeCacheKey("get_structure_market", <<sid>>, kwd)
            obs1 == [obs0 EXCEPT !.key = key, !.lookups = 1, !.heads = 1,
                                 !.found = CacheHas(cache, key, t)]
            value == CacheGet(cache, key, t)
            given == KwdGet(kwd, "update_threshold", 0)
            expires == IF given # 0 THEN Ttl(given) ELSE ExpiresAt(headers.expires)
            update_threshold == UpdateThreshold(given)
            filter == {<<"location_id", sid>>}
            d == UpdateOrNot(t - update_threshold, table, "retrieve_time",
                             MinFreshEntry, TRUE, filter)
            obs2 == [obs1 EXCEPT !.consulted = TRUE, !.update_flag = d.update_flag,
                                 !.retrieve_time = d.retrieve_time]
        IN  IF fail = 0 THEN Outcome(table, cache, Raise(obs1, "TransportError"))
            ELSE IF ~value.isNone
            THEN Outcome(table, cache, [obs1 EXCEPT !.hit = TRUE, !.value = value])
            ELSE IF ~d.update_flag
            THEN Outcome(table, cache,
                    [obs2 EXCEPT !.read = TRUE,
                        !.value = FreshRead(table, "all", NoType, filter,
                                            d.retrieve_time)])
            ELSE FetchOrders(t, table, cache, obs2, key, listing,
                             KwdGet(kwd, "page", -1), headers.x_pages, expires,
                             KwdGet(kwd, "region_id", 0), perm, fail)

\* get_region_market(region_name_or_id, order_type, type_id, **kwd)
GetRegionMarket(t, g, table, cache, arg, order_type, type_id, kwd, perm, fail) ==
    LET obs0 == Obs("get_region_market", <<>>)
        obsL == [obs0 EXCEPT !.lookups = IF arg.type = "str" THEN 1 ELSE 0]
    IN  IF arg.type \notin {"str", "int"}
        THEN Outcome(table, cache, Raise(obs0, "TypeError"))
        ELSE IF order_type \notin {"sell", "buy", "all"}
        THEN Outcome(table, cache, Raise(obsL, "ValueError"))
        ELSE
        LET rid == arg.id
            page == KwdGet(kwd, "page", -1)
            given == KwdGet(kwd, "update_threshold", 0)
            listing == RemoteRegionListing(g, order_type, type_id)
            headers == OrdersHeaders(listing, t)
            key == MakeCacheKey("get_region_market", <<rid, order_type, type_id>>, kwd)
            obs1 == [obsL EXCEPT !.key = key, !.heads = 1,
                                 !.found = CacheHas(cache, key, t)]
            value == CacheGet(cache, key, t)
            expires == IF given # 0 THEN Ttl(given) ELSE ExpiresAt(headers.expires)
            update_threshold == UpdateThreshold(given)
            filter == {<<"region_id", rid>>}
            d == UpdateOrNot(t - update_threshold, table, "retrieve_time",
                             MinFreshEntry, TRUE, filter)
            obs2 == [obs1 EXCEPT !.consulted = TRUE, !.update_flag = d.update_flag,
                                 !.retrieve_time = d.retrieve_time]
        IN  IF fail = 0 THEN Outcome(table, cache, Raise(obs1, "TransportError"))
            ELSE IF ~value.isNone
            THEN Outcome(table, cache, [obs1 EXCEPT !.hit = TRUE, !.value = value])
            ELSE IF ~d.update_flag
            THEN Outcome(table, cache,
                    [obs2 EXCEPT !.read = TRUE,
                        !.value = FreshRead(table, order_type, type_id, filter,
                                            d.retrieve_time)])
            ELSE FetchOrders(t, table, cache, obs2, key, listing, page,
                             headers.x_pages, expires, rid, perm, fail)

\* search_station_region_id: the region a station is in
StationRegion(station_id) == RegionId

\* get_station_market(station_name_or_id, order_type, type_id, **kwd)
GetStationMarket(t, g, table, cache, arg, order_type, type_id, kwd, perm, fail) ==
    LET obs0 == Obs("get_station_market", <<>>)
        obsL == [obs0 EXCEPT !.lookups = IF arg.type = "str" THEN 1 ELSE 0]
    IN  IF arg.type \notin {"str", "int"}
        THEN Outcome(table, cache, Raise(obs0, "TypeError"))
        ELSE IF order_type \notin {"sell", "buy", "all"}
        THEN Outcome(table, cache, Raise(obsL, "ValueError"))
        ELSE
        LET station_id == arg.id
            region_id == StationRegion(station_id)
            update_threshold == KwdGet(kwd, "update_threshold", DefaultThreshold)
            filter == {<<"region_id", region_id>>, <<"location_id", station_id>>}
            d == UpdateOrNot(t - update_threshold, table, "retrieve_time",
                             MinFreshEntry, TRUE, filter)
            \* the flag _update_or_not returns is named no_update_flag here
            no_update_flag == d.update_flag
            obs1 == [obsL EXCEPT !.lookups = @ + 1, !.consulted = TRUE,
                                 !.update_flag = d.update_flag,
                                 !.retrieve_time = d.retrieve_time]
            region == GetRegionMarket(t, g, table, cache,
                                      [type |-> "int", id |-> region_id],
                                      order_type, type_id,
                                      {<<"update_threshold", update_threshold>>},
                                      perm, fail)
            after == IF ~no_update_flag THEN region ELSE Outcome(table, cache, obs1)
            obs2 == IF ~no_update_flag
                    THEN [obs1 EXCEPT !.heads = region.obs.heads,
                                      !.requests = region.obs.requests,
                                      !.upserted = region.obs.upserted,
                                      !.wrote = region.obs.wrote,
                                      !.changed = region.obs.changed,
                                      !.cached = region.obs.cached]
                    ELSE obs1
        IN  IF after.obs.status = "error"
            THEN Outcome(after.table, after.api_cache, Raise(obs2, after.obs.error))
            ELSE Outcome(after.table, after.api_cache,
                    [obs2 EXCEPT !.read = TRUE,
                        !.value = Some(SelectFromOrders(after.table, order_type, type_id,
                                                        filter, d.retrieve_time))])

----------------------------------------------------------------------------
(* Market history *)

\* the type ids of the model: 1 is published and traded, 2 is published and has
\* no history, 3 is unpublished
HistoryTypes == {1, 2, 3}

\* _check_type_id_async(type_id): whether the type is published
CheckTypeId(type_id) == type_id # 3

\* /markets/{region_id}/history/ in generation g: one record per day 0..g, the
\* day as ESI writes it (a date, here the number of the day); the record of the
\* running day g is provisional and is revised once the day is over
RemoteHistory(g, type_id) ==
    IF type_id # 1 THEN <<>>
    ELSE [d \in 1..(g + 1) |->
            [date |-> d - 1,
             average |-> 100 + (d - 1), highest |-> 110 + (d - 1),
             lowest |-> 90 + (d - 1),
             volume |-> IF d - 1 < g THEN 70 ELSE 50,
             order_count |-> IF d - 1 < g THEN 7 ELSE 5]]

\* /markets/{region_id}/types/: the types with orders in the region, some of
\* them unpublished
RemoteRegionTypes == <<1, 3>>

DaySeconds == 24 * 3600
\* the step of the clock for the history: past the two days of its threshold
HistoryTick == 3 * DaySeconds
\* ESI renews history at 11:05 GMT: 39900 seconds into the day
DateOffset == 39900

\* datetime.timestamp(datetime.strptime(f"{date} +0000", "%Y-%m-%d %z")) + 39900
DateToTimestamp(date) == date * DaySeconds + DateOffset

\* the Expires header of the history endpoint: its next renewal
HistoryExpires(t) == ((t - DateOffset) \div DaySeconds + 1) * DaySeconds + DateOffset

\* ESIDB.history_insert_ignore of one row: insert unless a row of the same
\* (region_id, type_id, date) exists
HistoryInsertRow(table, r) ==
    IF \E x \in table : x.region_id = r.region_id /\ x.type_id = r.type_id
                        /\ x.date = r.date
    THEN table
    ELSE table \cup {r}

RECURSIVE HistoryInsertIgnore(_, _)
\* ESIDB.history_insert_ignore over the rows of a DataFrame, in order
HistoryInsertIgnore(table, df) ==
    IF df = <<>> THEN table
    ELSE HistoryInsertIgnore(HistoryInsertRow(table, Head(df)), Tail(df))

\* to_sql with a method that replaces the row of a key that is there
HistoryToSqlReplace(table, df) ==
    {x \in table : ~\E i \in 1..Len(df) :
                      /\ df[i].region_id = x.region_id
                      /\ df[i].type_id = x.type_id
                      /\ df[i].date = x.date}
        \cup SeqToSet(df)

\* df.to_sql("market_history", if_exists="append", method=ESIDB.history_insert_ignore)
HistoryToSql(table, df) == HistoryInsertIgnore(table, df)

RECURSIVE ByDate(_)
\* the rows of a result set of market_history as a DataFrame, by date
ByDate(S) ==
    IF S = {} THEN <<>>
    ELSE LET r == CHOOSE x \in S : \A y \in S : x.date <= y.date
         IN  <<r>> \o ByDate(S \ {r})

\* SELECT * FROM market_history WHERE region_id={rid} AND type_id={type_id}
SelectHistory(table, rid, type_id) ==
    ByDate({r \in table : r.region_id = rid /\ r.type_id = type_id})

\* lines 407-414: whether the history of the type in the region needs an update
\* the decision with the count of the newest rows left enabled
HistoryUpdateOrNotCounting(t, table, rid, type_id) ==
    UpdateOrNot(t - 2 * 24 * 3600, table, "date", MinFreshEntry, TRUE,
                {<<"region_id", rid>>, <<"type_id", type_id>>})

HistoryUpdateOrNot(t, table, rid, type_id) ==
    UpdateOrNot(t - 2 * 24 * 3600, table, "date", MinFreshEntry, FALSE,
                {<<"region_id", rid>>, <<"type_id", type_id>>})

\* lines 436-446: the response as a DataFrame: type_id and region_id added, the
\* date converted
HistoryFrame(resp, rid, type_id) ==
    [i \in 1..Len(resp) |->
        [region_id |-> rid, type_id |-> type_id,
         date |-> DateToTimestamp(resp[i].date),
         average |-> resp[i].average, highest |-> resp[i].highest,
         lowest |-> resp[i].lowest, volume |-> resp[i].volume,
         order_count |-> resp[i].order_count]]

(* _get_type_history_async runs in three steps, suspended at its two awaits. *)
(* A task is [type_id, pc, result]: pc is "check" (awaiting                  *)
(* _check_type_id_async), "request" (awaiting ESIClient.request), "done"     *)
(* (returned result) or "failed" (raised).                                  *)

\* lines 407-427: up to the first await.  The task returns the stored rows if
\* they are fresh
TaskStart(t, table, rid, type_id) ==
    IF ~HistoryUpdateOrNot(t, table, rid, type_id).update_flag
    THEN [type_id |-> type_id, pc |-> "done",
          result |-> Some(SelectHistory(table, rid, type_id))]
    ELSE [type_id |-> type_id, pc |-> "check", result |-> None]

\* the request made whatever the validity check answers
TaskCheckedIgnored(task) == [task EXCEPT !.pc = "request"]

\* lines 427-432: the validity check has answered
TaskChecked(task) ==
    IF ~CheckTypeId(task.type_id)
    THEN [task EXCEPT !.pc = "done"]
    ELSE [task EXCEPT !.pc = "request"]

\* lines 430-460: the request has answered with resp, or failed.  Gives the task
\* and the table it leaves
TaskResponded(task, table, rid, resp, failed) ==
    LET df == HistoryFrame(resp, rid, task.type_id)
    IN  IF failed
        THEN [task |-> [task EXCEPT !.pc = "failed"], table |-> table, wrote |-> <<>>]
        ELSE IF Len(resp) = 0
        THEN [task |-> [task EXCEPT !.pc = "done"], table |-> table, wrote |-> <<>>]
        ELSE [task |-> [task EXCEPT !.pc = "done", !.result = Some(df)],
              table |-> HistoryToSql(table, df), wrote |-> df]

\* get_type_history(region_name_or_id, type_id, reduces=None): the one task runs
\* to its end.  fail: the request that fails, none (-1), the HEAD (0) or the GET (1)
GetTypeHistory(t, g, table, cache, arg, type_id, fail) ==
    LET obs0 == Obs("get_type_history", <<>>)
    IN  IF arg.type \notin {"str", "int"}
        THEN Outcome(table, cache, Raise(obs0, "TypeError"))
        ELSE
        LET rid == arg.id
            key == MakeCacheKey("get_type_history", <<rid, type_id, "None">>, {})
            value == CacheGet(cache, key, t)
            obs1 == [obs0 EXCEPT !.key = key,
                                 !.lookups = IF arg.type = "str" THEN 1 ELSE 0,
                                 !.found = CacheHas(cache, key, t)]
            expires == ExpiresAt(HistoryExpires(t))
            d == HistoryUpdateOrNot(t, table, rid, type_id)
            started == TaskStart(t, table, rid, type_id)
            checked == IF started.pc = "check" THEN TaskChecked(started) ELSE started
            end == IF checked.pc = "request"
                   THEN TaskResponded(checked, table, rid, RemoteHistory(g, type_id),
                                      fail = 1)
                   ELSE [task |-> checked, table |-> table, wrote |-> <<>>]
            obs2 == [obs1 EXCEPT !.heads = 1, !.consulted = TRUE,
                                 !.update_flag = d.update_flag,
                                 !.retrieve_time = d.retrieve_time,
                                 !.read = (started.pc = "done"),
                                 !.requests = IF checked.pc = "request"
                                              THEN <<type_id>> ELSE <<>>,
                                 !.upserted = end.wrote,
                                 !.wrote = (end.wrote # <<>>),
                                 !.changed = (end.table # table)]
        IN  IF ~value.isNone
            THEN Outcome(table, cache, [obs1 EXCEPT !.hit = TRUE, !.value = value])
            ELSE IF fail = 0
            THEN Outcome(table, cache, Raise([obs1 EXCEPT !.heads = 1], "TransportError"))
            ELSE IF end.task.pc = "failed"
            THEN Outcome(end.table, cache, Raise(obs2, "TransportError"))
            ELSE Outcome(end.table,
                         StoreResult(cache, key, end.task.result, expires, t),
                         [obs2 EXCEPT !.cached = TRUE, !.value = end.task.result])

\* get_region_types(rid, src="esi"): the cached list, or the list ESI gives, cached
GetRegionTypes(t, cache, rid) ==
    LET key == MakeCacheKey("get_region_types", <<rid, "esi">>, {})
        value == CacheGet(cache, key, t)
    IN  IF ~value.isNone /\ value.df # <<>>
        THEN [types |-> value.df, api_cache |-> cache, heads |-> 0]
        ELSE [types |-> RemoteRegionTypes,
              api_cache |-> CacheSet(cache, key, Some(RemoteRegionTypes),
                                     ExpiresAt(t + EsiOrdersTtl), t),
              heads |-> 1]

\* pd.concat(ret, ignore_index=True): the frames of ret in order, None left out;
\* it raises when ret is empty or holds None alone
ConcatFrames(ret) ==
    IF \A i \in 1..Len(ret) : ret[i].isNone
    THEN [ok |-> FALSE, df |-> <<>>]
    ELSE [ok |-> TRUE, df |-> Concat([i \in 1..Len(ret) |-> ret[i].df])]

\* lines 525-552 of get_market_history: up to run_until_complete.  Every task
\* has run to its first await.  Gives the cache it leaves, what it did, and the
\* tasks (none when the call has ended)
BeginMarketHistory(t, table, cache, arg, type_ids, fail) ==
    LET obs0 == Obs("get_market_history", <<>>)
    IN  IF arg.type \notin {"str", "int"}
        THEN [api_cache |-> cache, obs |-> Raise(obs0, "TypeError"), tasks |-> <<>>,
              expires |-> Ttl(0), ended |-> TRUE]
        ELSE
        LET rid == arg.id
            types == GetRegionTypes(t, cache, rid)
            ids == IF type_ids = <<>> THEN types.types ELSE type_ids
            cache1 == IF type_ids = <<>> THEN types.api_cache ELSE cache
            key == IF type_ids = <<>>
                   THEN MakeCacheKey("get_market_history",
                                     <<rid, <<"str", "all_type_ids">>, "None">>, {})
                   ELSE MakeCacheKey("get_market_history",
                                     <<rid, <<"list", type_ids>>, "None">>, {})
            value == CacheGet(cache1, key, t)
            obs1 == [obs0 EXCEPT !.key = key,
                                 !.lookups = IF arg.type = "str" THEN 1 ELSE 0,
                                 !.heads = IF type_ids = <<>> THEN types.heads ELSE 0,
                                 !.found = CacheHas(cache1, key, t)]
            tasks == [i \in 1..Len(ids) |-> TaskStart(t, table, rid, ids[i])]
        IN  IF ~value.isNone
            THEN [api_cache |-> cache1, obs |-> [obs1 EXCEPT !.hit = TRUE, !.value = value],
                  tasks |-> <<>>, expires |-> Ttl(0), ended |-> TRUE]
            ELSE IF fail = 0
            THEN [api_cache |-> cache1,
                  obs |-> Raise([obs1 EXCEPT !.heads = @ + 1], "TransportError"),
                  tasks |-> <<>>, expires |-> Ttl(0), ended |-> TRUE]
            ELSE [api_cache |-> cache1,
                  obs |-> [obs1 EXCEPT !.heads = @ + 1, !.consulted = TRUE,
                              !.update_flag = \E i \in 1..Len(tasks) : tasks[i].pc # "done",
                              !.read = \E i \in 1..Len(tasks) : tasks[i].pc = "done"],
                  tasks |-> tasks, expires |-> ExpiresAt(HistoryExpires(t)),
                  ended |-> FALSE]

\* lines 554-558: every task has returned.  ret holds their results in order
EndMarketHistory(t, cache, obs, tasks, expires) ==
    LET ret == [i \in 1..Len(tasks) |-> tasks[i].result]
        df == ConcatFrames(ret)
    IN  IF ~df.ok THEN [api_cache |-> cache, obs |-> Raise(obs, "ValueError")]
        ELSE [api_cache |-> StoreResult(cache, obs.key, Some(df.df), expires, t),
              obs |-> [obs EXCEPT !.cached = TRUE, !.value = Some(df.df)]]

----------------------------------------------------------------------------
(* The inputs of the calls *)

\* a structure, region or station given by id (int) or by name (str), or an
\* argument of another type
ById(id) == [type |-> "int", id |-> id]
ByName(id) == [type |-> "str", id |-> id]
ByFloat(id) == [type |-> "float", id |-> id]

\* get_structure_market: the structure by id or by name, with and without cname,
\* by default and with an update_threshold
StructureCalls ==
    {[arg |-> a[1], cname |-> a[2], kwd |-> k] :
        a \in {<<ById(StructureId), "">>, <<ById(StructureId), "alice">>,
               <<ByName(StructureId), "alice">>, <<ByName(StructureId), "bob">>},
        k \in {{}, {<<"update_threshold", TickStep>>}}}

\* get_structure_market by default, with the update_threshold -1 that its
\* documentation gives to force an update, and the calls it rejects: a name
\* without cname, an argument that is neither str nor int
StructureEdgeCalls ==
    {[arg |-> ById(StructureId), cname |-> "", kwd |-> {}],
     [arg |-> ById(StructureId), cname |-> "", kwd |-> {<<"update_threshold", -1>>}],
     [arg |-> ByName(StructureId), cname |-> "", kwd |-> {}],
     [arg |-> ByFloat(StructureId), cname |-> "alice", kwd |-> {}]}

\* get_region_market: the whole region, by default, with an update_threshold and
\* for its last page alone; and one side of one type
RegionCalls ==
    {[arg |-> ById(RegionId), order_type |-> "all", type_id |-> NoType, kwd |-> k] :
        k \in {{}, {<<"update_threshold", TickStep>>},
               {<<"page", MaxPage>>, <<"update_threshold", TickStep>>}}}
    \cup {[arg |-> ById(RegionId), order_type |-> "buy", type_id |-> 1, kwd |-> {}]}

\* get_region_market by default, for a side of a type nobody trades, with the
\* update_threshold -1 that forces an update, and the calls it rejects: an
\* order_type it does not know, an argument that is neither str nor int
RegionEdgeCalls ==
    {[arg |-> ById(RegionId), order_type |-> "all", type_id |-> NoType, kwd |-> {}],
     [arg |-> ById(RegionId), order_type |-> "sell", type_id |-> 2, kwd |-> {}],
     [arg |-> ById(RegionId), order_type |-> "all", type_id |-> NoType,
      kwd |-> {<<"update_threshold", -1>>}],
     [arg |-> ByName(RegionId), order_type |-> "bid", type_id |-> NoType, kwd |-> {}],
     [arg |-> ByFloat(RegionId), order_type |-> "all", type_id |-> NoType, kwd |-> {}]}

\* get_region_market for the whole region and for its buy side
RegionSideCalls ==
    {[arg |-> ById(RegionId), order_type |-> o, type_id |-> NoType, kwd |-> {}] :
        o \in {"all", "buy"}}

\* get_station_market: the station, all its orders or one side
StationCalls ==
    {[arg |-> ById(StationId), order_type |-> o, type_id |-> NoType, kwd |-> {}] :
        o \in {"all", "buy"}}

\* the calls get_station_market rejects
StationEdgeCalls ==
    {[arg |-> ByName(StationId), order_type |-> "bid", type_id |-> NoType, kwd |-> {}],
     [arg |-> ByFloat(StationId), order_type |-> "all", type_id |-> NoType, kwd |-> {}]}

\* get_type_history: each type of the region
TypeHistoryCalls == {[arg |-> ById(RegionId), type_id |-> i] : i \in HistoryTypes}

\* get_market_history: a type twice, an unpublished type alone, and every type
\* of the region (no type_ids: a published and an unpublished type)
MarketHistoryCalls ==
    {[arg |-> ById(RegionId), type_ids |-> ids] : ids \in {<<1, 1>>, <<3>>, <<>>}}

\* the request that fails: none (-1), the HEAD (0) or the GET of a page
Fails == (-1)..MaxPage

----------------------------------------------------------------------------
(* The state machine *)

\* no bulk history call is running
Idle == [phase |-> "idle", obs |-> Obs("none", <<>>), tasks |-> <<>>, expires |-> Ttl(0)]

\* The calls on a structure, on a region and its stations, and on the history
\* of a region touch disjoint rows and disjoint cache keys; a run makes the
\* calls of one family: of a structure, of a region and its station, of the
\* history of single types, or of the bulk history; or the calls at the edges
\* (forced updates, empty listings, rejected arguments) of a structure, or of a
\* region and its station; or the calls for the sides of a region.
Families == {"structure", "region", "type_history", "market_history",
             "structure_edge", "region_edge", "region_side"}

Init ==
    /\ now = 0
    /\ gen = 0
    /\ orders = {}
    /\ market_history = {}
    /\ api_cache = {}
    /\ last = Obs("none", <<>>)
    /\ written = {}
    /\ hist = Idle
    /\ firstWritten = {}
    /\ family \in Families

\* the rows most recently handed to the orders upsert, per order_id, after df
Written(w, df) ==
    LET lastOf(o) == df[CHOOSE i \in 1..Len(df) :
                           df[i].order_id = o /\ \A j \in (i+1)..Len(df) : df[j].order_id # o]
        ids == {df[i].order_id : i \in 1..Len(df)}
    IN  {r \in w : r.order_id \notin ids} \cup {lastOf(o) : o \in ids}

\* time passes between two calls: ten minutes for the orders, three days for
\* the history (a call reads the time once, when it starts)
Tick ==
    /\ hist.phase = "idle"
    /\ IF family \in {"type_history", "market_history"}
       THEN now < MaxHistoryTicks * HistoryTick /\ now' = now + HistoryTick
       ELSE now < MaxTicks * TickStep /\ now' = now + TickStep
    /\ UNCHANGED <<gen, orders, market_history, api_cache, last, written, hist,
                   firstWritten, family>>

\* the remote market moves on
RemoteUpdate ==
    /\ gen < MaxGen
    /\ gen' = gen + 1
    /\ UNCHANGED <<now, orders, market_history, api_cache, last, written, hist,
                   firstWritten, family>>

OrdersCallDone(out) ==
    /\ orders' = out.table
    /\ api_cache' = out.api_cache
    /\ last' = out.obs
    /\ written' = Written(written, out.obs.upserted)
    /\ UNCHANGED <<now, gen, market_history, hist, firstWritten, family>>

StructureCall ==
    /\ family \in {"structure", "structure_edge"}
    /\ \E c \in (IF family = "structure" THEN StructureCalls ELSE StructureEdgeCalls),
          fail \in Fails :
        \E perm \in CompletionOrders(PageRange(XPages(RemoteStructureOrders(gen)))) :
            OrdersCallDone(GetStructureMarket(now, gen, orders, api_cache,
                                              c.arg, c.cname, c.kwd, perm, fail))

RegionCall ==
    /\ family \in {"region", "region_edge", "region_side"}
    /\ \E c \in (CASE family = "region" -> RegionCalls
                  [] family = "region_edge" -> RegionEdgeCalls
                  [] OTHER -> RegionSideCalls),
          fail \in Fails :
        \E perm \in CompletionOrders(PageRange(XPages(
                        RemoteRegionListing(gen, c.order_type, c.type_id)))) :
            OrdersCallDone(GetRegionMarket(now, gen, orders, api_cache, c.arg,
                                c.order_type, c.type_id, c.kwd, perm, fail))

StationCall ==
    /\ family \in {"region", "region_edge"}
    /\ \E c \in (IF family = "region" THEN StationCalls ELSE StationEdgeCalls),
          fail \in Fails :
        \E perm \in CompletionOrders(PageRange(XPages(
                        RemoteRegionListing(gen, c.order_type, c.type_id)))) :
            OrdersCallDone(GetStationMarket(now, gen, orders, api_cache, c.arg,
                                c.order_type, c.type_id, c.kwd, perm, fail))

\* the rows of the first successful write per (region_id, type_id, date), after df
FirstWritten(w, df) ==
    w \cup {r \in SeqToSet(df) :
              ~\E x \in w : x.region_id = r.region_id /\ x.type_id = r.type_id
                            /\ x.date = r.date}

TypeHistoryCall ==
    /\ family = "type_history"
    /\ hist.phase = "idle"
    /\ \E c \in TypeHistoryCalls, fail \in (-1)..1 :
        LET out == GetTypeHistory(now, gen, market_history, api_cache,
                                  c.arg, c.type_id, fail)
        IN  /\ market_history' = out.table
            /\ api_cache' = out.api_cache
            /\ last' = out.obs
            /\ firstWritten' = FirstWritten(firstWritten, out.obs.upserted)
    /\ UNCHANGED <<now, gen, orders, written, hist, family>>

\* get_market_history up to run_until_complete
MarketHistoryBegin ==
    /\ family = "market_history"
    /\ hist.phase = "idle"
    /\ \E c \in MarketHistoryCalls, fail \in (-1)..0 :
        LET b == BeginMarketHistory(now, market_history, api_cache,
                                    c.arg, c.type_ids, fail)
        IN  /\ api_cache' = b.api_cache
            /\ IF b.ended
               THEN last' = b.obs /\ hist' = Idle
               \* while the call runs there is no call that has just returned
               ELSE last' = Obs("none", <<>>)
                    /\ hist' = [phase |-> "running", obs |-> b.obs,
                                tasks |-> b.tasks, expires |-> b.expires]
    /\ UNCHANGED <<now, gen, orders, market_history, written, firstWritten, family>>

\* the validity check of a task answers
TaskCheck ==
    /\ hist.phase = "running"
    /\ \E i \in 1..Len(hist.tasks) :
        /\ hist.tasks[i].pc = "check"
        /\ LET task == TaskChecked(hist.tasks[i])
           IN  hist' = [hist EXCEPT !.tasks[i] = task,
                            !.obs.requests = IF task.pc = "request"
                                             THEN Append(@, task.type_id) ELSE @]
    /\ UNCHANGED <<now, gen, orders, market_history, api_cache, last, written,
                   firstWritten, family>>

\* the history request of a task answers and the task runs to its end; if the
\* request failed, the task raises and run_until_complete raises with it
TaskResponse ==
    /\ hist.phase = "running"
    /\ \E i \in 1..Len(hist.tasks), failed \in BOOLEAN :
        /\ hist.tasks[i].pc = "request"
        /\ LET end == TaskResponded(hist.tasks[i], market_history, RegionId,
                                    RemoteHistory(gen, hist.tasks[i].type_id), failed)
               obs == [hist.obs EXCEPT !.upserted = @ \o end.wrote,
                                       !.wrote = @ \/ end.wrote # <<>>,
                                       !.changed = @ \/ end.table # market_history]
           IN  /\ market_history' = end.table
               /\ firstWritten' = FirstWritten(firstWritten, end.wrote)
               /\ IF failed
                  THEN last' = Raise(obs, "TransportError") /\ hist' = Idle
                  ELSE last' = last
                       /\ hist' = [hist EXCEPT !.tasks[i] = end.task, !.obs = obs]
    /\ UNCHANGED <<now, gen, orders, api_cache, written, family>>

\* run_until_complete giving the results before every task has returned
MarketHistoryEndEarly ==
    /\ hist.phase = "running"
    /\ LET e == EndMarketHistory(now, api_cache, hist.obs, hist.tasks, hist.expires)
       IN  /\ api_cache' = e.api_cache
           /\ last' = e.obs
    /\ hist' = Idle
    /\ UNCHANGED <<now, gen, orders, market_history, written, firstWritten, family>>

\* every task has returned: get_market_history concatenates, caches and returns
MarketHistoryEnd ==
    /\ hist.phase = "running"
    /\ \A i \in 1..Len(hist.tasks) : hist.tasks[i].pc = "done"
    /\ LET e == EndMarketHistory(now, api_cache, hist.obs, hist.tasks, hist.expires)
       IN  /\ api_cache' = e.api_cache
           /\ last' = e.obs
    /\ hist' = Idle
    /\ UNCHANGED <<now, gen, orders, market_history, written, firstWritten, family>>

Next ==
    \/ Tick
    \/ RemoteUpdate
    \/ StructureCall
    \/ RegionCall
    \/ StationCall
    \/ TypeHistoryCall
    \/ MarketHistoryBegin
    \/ TaskCheck
    \/ TaskResponse
    \/ MarketHistoryEnd

Spec == Init /\ [][Next]_vars

----------------------------------------------------------------------------
(* The claims *)

OrdersOps == {"get_structure_market", "get_region_market", "get_station_market"}

\* the call that last returned or raised missed the cache and consulted the
\* freshness decision
Decided == ~last.hit /\ last.consulted

\* every row of the value returned was handed to the upsert by the call
ValueWasUpserted ==
    \A i \in 1..Len(last.value.df) :
        \E j \in 1..Len(last.upserted) : last.upserted[j] = last.value.df[i]

\* C1: a call of any shape (structure, region, station orders, history of a
\* published type) that misses the cache and is told needsUpdate = true requests
\* the records from the remote source and upserts them before it returns; it
\* never returns rows it read from the store unrefreshed.
C1_StaleIsRefreshed ==
    (/\ last.op \in OrdersOps \cup {"get_type_history"}
     /\ last.status = "ok"
     /\ Decided
     /\ last.update_flag
     /\ last.op = "get_type_history" => CheckTypeId(last.key[2][2]))
    => /\ last.requests # <<>>
       /\ ~last.read
       /\ ValueWasUpserted

\* the same for the calls of get_structure_market, get_region_market and
\* get_type_history alone
C1_StaleIsRefreshedButStation ==
    last.op # "get_station_market" => C1_StaleIsRefreshed

\* C3: a call of any shape, station orders included, that misses the cache and
\* is told needsUpdate = false returns rows read from the store, requests no
\* page and no item from the remote source, and upserts nothing.
C3_FreshIsServedFromStore ==
    (/\ last.op \in OrdersOps \cup {"get_type_history"}
     /\ Decided
     /\ ~last.update_flag)
    => /\ last.requests = <<>>
       /\ ~last.wrote
       /\ last.status = "ok" => last.read

C3_FreshIsServedFromStoreButStation ==
    last.op # "get_station_market" => C3_FreshIsServedFromStore

\* needsUpdate as the specification words it: no row matches the filter, or the
\* newest matching row is older than T, or the count of the newest rows is
\* enabled and below min_fresh_entry
NeedsUpdate(T, table, column, min_fresh_entry, fresh_entry_check, filter) ==
    LET match == {r \in table : RowMatches(r, filter)}
        newest == {r \in match : \A q \in match : Stamp(q, column) <= Stamp(r, column)}
    IN  \/ match = {}
        \/ \A r \in match : Stamp(r, column) < T
        \/ fresh_entry_check /\ Cardinality(newest) < min_fresh_entry

\* the thresholds at and just past the timestamps stored, the filters and the
\* counts the decision is compared on, each time a call on a structure, on a
\* region or for the history of a type changes the content of a table
ThresholdsOf(table, column) ==
    UNION {{Stamp(r, column), Stamp(r, column) + 1} : r \in table}
OrdersFilters ==
    {{<<"location_id", StationId>>}, {<<"region_id", RegionId>>},
     {<<"region_id", RegionId>>, <<"location_id", OtherStationId>>},
     {<<"location_id", StructureId>>}}
HistoryFilters ==
    {{<<"region_id", RegionId>>, <<"type_id", i>>} : i \in HistoryTypes}
MinFreshEntries == {1, MinFreshEntry, MinFreshEntry + 1}

DecisionAgrees(table, column, filters) ==
    \A T \in ThresholdsOf(table, column), filter \in filters :
        LET uncounted == UpdateOrNot(T, table, column, 0, FALSE, filter)
        IN  /\ uncounted.update_flag = NeedsUpdate(T, table, column, 0, FALSE, filter)
            /\ uncounted.retrieve_time.isNone
                   = ({r \in table : RowMatches(r, filter)} = {})
            /\ \A n \in MinFreshEntries :
                  /\ UpdateOrNot(T, table, column, n, FALSE, filter) = uncounted
                  /\ UpdateOrNot(T, table, column, n, TRUE, filter).update_flag
                         = NeedsUpdate(T, table, column, n, TRUE, filter)

\* the threshold of an orders call: update_threshold seconds back, 1200 by default
ThresholdOfCall(kwd) ==
    LET given == KwdGet(kwd, "update_threshold", 0)
    IN  now - (IF given # 0 THEN given ELSE DefaultThreshold)

\* the decision a call that has just returned has taken agrees with needsUpdate
\* evaluated on the table as it was when the call started
CallSiteAgrees ==
    (last' # last /\ last'.consulted) =>
        /\ last'.op = "get_type_history" =>
              last'.update_flag =
                  NeedsUpdate(now - 2 * DaySeconds, market_history, "date", 0, FALSE,
                              {<<"region_id", last'.key[2][1]>>,
                               <<"type_id", last'.key[2][2]>>})
        /\ last'.op = "get_structure_market" =>
              last'.update_flag =
                  NeedsUpdate(ThresholdOfCall(last'.key[3]), orders, "retrieve_time",
                              MinFreshEntry, TRUE,
                              {<<"location_id", last'.key[2][1]>>})
        /\ last'.op = "get_region_market" =>
              last'.update_flag =
                  NeedsUpdate(ThresholdOfCall(last'.key[3]), orders, "retrieve_time",
                              MinFreshEntry, TRUE,
                              {<<"region_id", last'.key[2][1]>>})

\* C2: for every threshold, filter, min_fresh_entry and content of the store the
\* freshness decision is needsUpdate = (no row matches) or (the newest matching
\* row is older than the threshold) or (the count is enabled and the rows with
\* the newest timestamp are fewer than min_fresh_entry), with no retrieve time
\* exactly when no row matches; the history of a type is decided on the date
\* column against now - 2 days with the count disabled, so that the count never
\* matters there.
C2_FreshnessDecision ==
    [][/\ (orders' # orders /\ family \in {"structure", "region"})
              => DecisionAgrees(orders', "retrieve_time", OrdersFilters)
       /\ (market_history' # market_history /\ family = "type_history")
              => DecisionAgrees(market_history', "date", HistoryFilters)
       /\ CallSiteAgrees]_vars

\* the history of a type was found fresh on fewer rows of the newest date than
\* min_fresh_entry
C2_Witness ==
    /\ last.op = "get_type_history"
    /\ Decided
    /\ ~last.update_flag
    /\ LET match == {r \in market_history :
                        r.region_id = last.key[2][1] /\ r.type_id = last.key[2][2]}
       IN  /\ match # {}
           /\ Cardinality({r \in match : \A q \in match : q.date <= r.date})
                  < MinFreshEntry

AllOps == OrdersOps \cup {"get_type_history", "get_market_history"}

\* C4: two calls of the same operation with the same arguments have the same
\* cache key, whoever the character, and when the first has succeeded and its
\* entry has not expired the second returns the cached value: it does not
\* consult the freshness decision and neither reads nor writes the store.
C4_SecondCallIsServedFromCache ==
    /\ (last.op \in AllOps /\ last.status = "ok") => last.key # <<>>
    /\ (last.found /\ last.status = "ok") => /\ last.hit
                                             /\ ~last.consulted
                                             /\ ~last.read
                                             /\ ~last.wrote

\* the entry of the call that last returned
EntryOfLast == \E e \in api_cache : e.key = last.key /\ e.value = last.value

FetchedOrHistory ==
    /\ last.status = "ok"
    /\ ~last.hit
    /\ \/ last.op \in {"get_structure_market", "get_region_market"} /\ ~last.read
       \/ last.op \in {"get_type_history", "get_market_history"}

C6_OrdersLastWriteWins ==
    /\ \A r, x \in orders : r.order_id = x.order_id => r = x
    /\ \A r \in orders : \E w \in written :
          /\ w.order_id = r.order_id
          /\ w.price = r.price
          /\ w.volume_remain = r.volume_remain
          /\ w.duration = r.duration
          /\ w.retrieve_time = r.retrieve_time
    /\ \A w \in written : \E r \in orders : r.order_id = w.order_id

\* an order stored was upserted before with another price: a cached result of
\* an earlier fetch has it
C6_Witness ==
    \E r \in orders : \E e \in api_cache : \E i \in 1..Len(e.value.df) :
        /\ e.value.df[i].order_id = r.order_id
        /\ e.value.df[i].price # r.price
        /\ e.value.df[i].retrieve_time < r.retrieve_time

SameDay(r, x) ==
    r.region_id = x.region_id /\ r.type_id = x.type_id /\ r.date = x.date

\* C7: after any sequence and interleaving of history fetches, a bulk call that
\* lists a type twice included, market_history holds at most one row per
\* (region_id, type_id, date), and the row has the values first written; a later
\* write under the same key changes nothing.
C7_HistoryFirstWriteWins ==
    /\ \A r, x \in market_history : SameDay(r, x) => r = x
    /\ market_history = firstWritten

\* a bulk call has written the same day twice, with different values, and the
\* row stored is the one written first
C7_Witness ==
    /\ last.op = "get_market_history"
    /\ last.status = "ok"
    /\ \E i, j \in 1..Len(last.upserted) :
          /\ i < j
          /\ SameDay(last.upserted[i], last.upserted[j])
          /\ last.upserted[i] # last.upserted[j]
          /\ last.upserted[i] \in market_history

\* the keys, values and expiries set and got on the cache a state has: the key
\* of the last call and a key under which nothing is stored
CacheKeys == {last.key, MakeCacheKey("get_region_market", <<0>>, {})}
CacheValues == {Some(<<>>), Some(<<1>>)}
CacheTtls == {0, EsiOrdersTtl, DefaultThreshold}

\* C8: for every key, value and TTL, set(k, v, ttl) followed at once by get(k)
\* gives v, and a get(k) after expires_at gives nothing, while the entry is
\* still there: no deletion is needed.
C8_CacheSetGet ==
    /\ \A k \in CacheKeys, v \in CacheValues, ttl \in CacheTtls :
          LET byTtl == CacheSet(api_cache, k, v, Ttl(ttl), now)
              byExpiry == CacheSet(api_cache, k, v, ExpiresAt(now + ttl), now)
          IN  /\ CacheGet(byTtl, k, now) = v
              /\ CacheGet(byExpiry, k, now) = v
              /\ CacheGet(byTtl, k, now + ttl) = v
              /\ CacheGet(byTtl, k, now + ttl + 1) = None
              /\ CacheGet(byExpiry, k, now + ttl + 1) = None
              /\ \E e \in byTtl : e.key = k /\ e.expires_at = now + ttl
    /\ \A e \in api_cache :
          CacheGet(api_cache, e.key, now) = IF now <= e.expires_at THEN e.value ELSE None

\* the cache holds a value under an entry that has expired
C8_Witness ==
    \E e \in api_cache : /\ now > e.expires_at
                         /\ ~e.value.isNone
                         /\ CacheGet(api_cache, e.key, now) = None

\* C9: when the request of one task of a bulk history call fails with a
\* transport error, the call fails, market_history holds no row written by a
\* task of the call, and no cache entry is made.
C9_BulkFailureWritesNothing ==
    (last.op = "get_market_history" /\ last.error = "TransportError")
        => /\ last.status = "error"
           /\ ~last.wrote
           /\ ~last.changed
           /\ ~last.cached

\* C10: when the request of a page of a structure or region orders call fails
\* with a transport error, the call fails and orders and api_cache are as they
\* were before it: no row of the pages answered is upserted, no entry stored.
C10_PageFailureChangesNothing ==
    [][(last'.op \in {"get_structure_market", "get_region_market"}
            /\ last'.error = "TransportError")
        => /\ last'.status = "error"
           /\ orders' = orders
           /\ api_cache' = api_cache
           /\ ~last'.wrote
           /\ ~last'.cached]_vars

\* a call for several pages has failed on one of them
C10_Witness ==
    /\ last.op \in {"get_structure_market", "get_region_market"}
    /\ last.error = "TransportError"
    /\ Len(last.requests) >= 2

\* a structure or region call has requested pages, every request was answered,
\* and there was no record in them
EmptyFetch ==
    /\ last.op \in {"get_structure_market", "get_region_market"}
    /\ last.requests # <<>>
    /\ last.error # "TransportError"
    /\ last.upserted = <<>>

\* C11: a structure or region orders call on the fetch path whose pages all
\* hold zero records ends normally with an empty result: it raises nothing and
\* adds no row to orders.
C11_EmptyFetchReturnsEmpty ==
    EmptyFetch => /\ last.status = "ok"
                  /\ last.value = Some(<<>>)
                  /\ ~last.changed

\* C12: a bulk history call ends normally whatever its types yield, also when
\* every type yields no data (invalid, or an empty response): unless a request
\* fails or the region argument is rejected it raises nothing, and a call none
\* of whose types wrote or read a row returns an empty result.
C12_BulkNoDataReturnsEmpty ==
    (/\ last.op = "get_market_history"
     /\ last.error \notin {"TransportError", "TypeError"})
    => /\ last.status = "ok"
       /\ (~last.hit /\ ~last.wrote /\ ~last.read) => last.value = Some(<<>>)

Rejected ==
    /\ last.op \in AllOps
    /\ \/ last.error = "TypeError"
       \/ last.error = "ValueError" /\ last.op \in OrdersOps

\* C14: in every entry point a validation error is raised before the call has
\* made any remote request, any name-resolution lookup, any cache access and any
\* store access.
C14_RejectedBeforeAnyAccess ==
    Rejected => /\ last.lookups = 0
                /\ last.heads = 0
                /\ last.requests = <<>>
                /\ ~last.consulted
                /\ ~last.found
                /\ ~last.read
                /\ ~last.wrote
                /\ ~last.cached

\* the same for the rejections of an identifier and of a structure name
C14_RejectedIdentifierBeforeAnyAccess ==
    (last.error = "TypeError" \/ last.op = "get_structure_market")
        => C14_RejectedBeforeAnyAccess

\* the two sequences hold the same elements the same number of times
SameMultiset(a, b) ==
    /\ Len(a) = Len(b)
    /\ \A i \in 1..Len(a) :
          Cardinality({j \in 1..Len(a) : a[j] = a[i]})
              = Cardinality({j \in 1..Len(b) : b[j] = a[i]})

\* two outcomes of an orders call agree on what the caller and the store see
SameOutcome(x, y) ==
    /\ x.table = y.table
    /\ x.obs.status = y.obs.status
    /\ x.obs.error = y.obs.error
    /\ x.obs.value.isNone = y.obs.value.isNone
    /\ SameMultiset(x.obs.value.df, y.obs.value.df)

\* every completion order of the pages of a structure call and of a region call
\* made now gives the outcome that the order of the page numbers gives
PagesCommute ==
    /\ family \in {"structure", "structure_edge"} =>
          \A c \in (IF family = "structure" THEN StructureCalls ELSE StructureEdgeCalls) :
              LET pages == PageRange(XPages(RemoteStructureOrders(gen)))
                  inOrder == GetStructureMarket(now, gen, orders, api_cache, c.arg,
                                                c.cname, c.kwd, pages, -1)
              IN  \A p \in CompletionOrders(pages) \ {pages} :
                      SameOutcome(GetStructureMarket(now, gen, orders, api_cache, c.arg,
                                                     c.cname, c.kwd, p, -1),
                                  inOrder)
    /\ family \in {"region", "region_edge"} =>
          \A c \in (IF family = "region" THEN RegionCalls ELSE RegionEdgeCalls) :
              LET pages == PageRange(XPages(
                               RemoteRegionListing(gen, c.order_type, c.type_id)))
                  inOrder == GetRegionMarket(now, gen, orders, api_cache, c.arg,
                                             c.order_type, c.type_id, c.kwd, pages, -1)
              IN  \A p \in CompletionOrders(pages) \ {pages} :
                      SameOutcome(GetRegionMarket(now, gen, orders, api_cache, c.arg,
                                                  c.order_type, c.type_id, c.kwd, p, -1),
                                  inOrder)

RECURSIVE RunTasks(_, _, _)
\* the tasks of a bulk call run to their end one after the other in the order
\* given (a sequence of their indices), every request answered: the table and
\* the tasks they leave
RunTasks(table, tasks, order) ==
    IF order = <<>> THEN [table |-> table, tasks |-> tasks]
    ELSE LET i == Head(order)
             checked == IF tasks[i].pc = "check" THEN TaskChecked(tasks[i]) ELSE tasks[i]
             end == IF checked.pc = "request"
                    THEN TaskResponded(checked, table, RegionId,
                                       RemoteHistory(gen, checked.type_id), FALSE)
                    ELSE [task |-> checked, table |-> table, wrote |-> <<>>]
         IN  RunTasks(end.table, [tasks EXCEPT ![i] = end.task], Tail(order))

\* the type ids bulk calls are compared on
CommuteTypeIds == {<<1, 1>>, <<1, 2>>, <<3, 1, 1>>}

\* every completion order of the tasks of a bulk call started now gives the
\* table and the results to concatenate that the order of the tasks gives
TasksCommute ==
    (family = "market_history" /\ hist.phase = "idle") =>
        \A ids \in CommuteTypeIds :
            LET tasks == [i \in 1..Len(ids) |->
                             TaskStart(now, market_history, RegionId, ids[i])]
                Ret(run) == ConcatFrames([i \in 1..Len(ids) |-> run.tasks[i].result])
                y == RunTasks(market_history, tasks, PageRange(Len(ids)))
            IN  \A p \in CompletionOrders(PageRange(Len(ids))) \ {PageRange(Len(ids))} :
                    LET x == RunTasks(market_history, tasks, p)
                    IN  /\ x.table = y.table
                        /\ Ret(x).ok = Ret(y).ok
                        /\ SameMultiset(Ret(x).df, Ret(y).df)

\* C15: for a call that fans out, every completion order of the requests of its
\* pages, or of its per-type tasks, gives the same multiset of returned records
\* and the same content of the store.
C15_CompletionOrderIsIrrelevant == PagesCommute /\ TasksCommute

\* a region call has merged two pages
C15_Witness ==
    /\ last.op = "get_region_market"
    /\ last.status = "ok"
    /\ Len(last.requests) >= 2
    /\ Len(last.value.df) > PageSize

\* the call that last ended was given update_threshold = -1
Forced ==
    /\ last.op \in {"get_structure_market", "get_region_market"}
    /\ last.key # <<>>
    /\ <<"update_threshold", -1>> \in last.key[3]

\* C16: a structure or region call with update_threshold = -1 forces an update:
\* whatever the store holds and whatever earlier calls with the same arguments
\* have cached, it is not served from the cache nor from the store, the slice is
\* found stale, and the call that returns has requested the pages and upserted
\* the records it returns.
C16_MinusOneForcesUpdate ==
    Forced => /\ ~last.hit
              /\ ~last.found
              /\ ~last.read
              /\ last.consulted => last.update_flag
              /\ last.status = "ok" => /\ last.consulted
                                       /\ last.requests # <<>>
                                       /\ last.wrote
                                       /\ ValueWasUpserted

\* a forced update has fetched a slice that had been fetched at this very
\* instant, and that an earlier forced update has cached
C16_Witness ==
    /\ Forced
    /\ last.status = "ok"
    /\ last.retrieve_time = Some(now)
    /\ \E e \in api_cache : e.key = last.key

\* C17: get_station_market returns the rows of the current snapshot of the
\* region that are at the station; in particular, when the call has refreshed
\* the region, it returns the rows of the station in the refreshed snapshot.
C17_StationReturnsRefreshedRows ==
    (/\ last.op = "get_station_market"
     /\ last.status = "ok"
     /\ last.wrote)
    => SeqToSet(last.value.df)
           = {r \in SeqToSet(last.upserted) : r.location_id = StationId}

\* a structure or region call answered on the Fresh path
FreshPath ==
    /\ last.op \in {"get_structure_market", "get_region_market"}
    /\ last.status = "ok"
    /\ last.read

\* the stored rows of the slice the oracle of the last call has looked at
SliceOfLast ==
    {r \in orders :
        IF last.op = "get_structure_market"
        THEN r.location_id = last.key[2][1]
        ELSE r.region_id = last.key[2][1]}

\* the rows of the slice the arguments of the last call ask for
AskedOfLast ==
    {r \in SliceOfLast :
        \/ last.op = "get_structure_market"
        \/ /\ last.key[2][2] = "buy" => r.is_buy_order
           /\ last.key[2][2] = "sell" => ~r.is_buy_order
           /\ last.key[2][3] # NoType => r.type_id = last.key[2][3]}

\* C18: a structure or region call answered on the Fresh path returns exactly
\* the stored rows that match its filter and have the retrieve_time the oracle
\* reported, which is the greatest retrieve_time of the slice; it returns no row
\* of an older snapshot.
C18_FreshReadIsLatestSnapshot ==
    FreshPath =>
        /\ ~last.retrieve_time.isNone
        /\ \A r \in SliceOfLast : r.retrieve_time <= last.retrieve_time.df
        /\ \E r \in SliceOfLast : r.retrieve_time = last.retrieve_time.df
        /\ SeqToSet(last.value.df)
               = {r \in AskedOfLast : r.retrieve_time = last.retrieve_time.df}
        /\ Len(last.value.df) = Cardinality(SeqToSet(last.value.df))

\* a Fresh read that has left out a stored row of an older snapshot the
\* arguments ask for
C18_Witness ==
    /\ FreshPath
    /\ last.value.df # <<>>
    /\ \E r \in AskedOfLast : r.retrieve_time < last.retrieve_time.df

\* the listing the remote source holds for the arguments of an orders call
\* that has the cache key k
ListingOf(k, g) ==
    IF k[1] = "get_structure_market" THEN RemoteStructureOrders(g)
    ELSE RemoteRegionListing(g, k[2][2], k[2][3])

\* the pages the keywords in the cache key k ask for explicitly
ExplicitPages(k) == {o[2] : o \in {o \in k[3] : o[1] = "page"}}

\* the structure or region call this step makes takes the fetch path
FetchPathStep ==
    /\ gen' = gen
    /\ now' = now
    /\ last'.op \in {"get_structure_market", "get_region_market"}
    /\ ~last'.hit
    /\ last'.consulted
    /\ last'.update_flag

\* C19: on the fetch path of a structure or region call, when no page is asked
\* for there is exactly one request for each page 1..X, X being the page count
\* the HEAD request reported, and none for another page; when page p is asked
\* for there is exactly one request, for page p.
C19_OneRequestPerPage ==
    [][FetchPathStep =>
        LET X == XPages(ListingOf(last'.key, gen))
            asked == ExplicitPages(last'.key)
            requests == last'.requests
        IN  /\ last'.heads = 1
            /\ IF asked = {}
               THEN /\ Len(requests) = X
                    /\ \A p \in 1..X :
                          Cardinality({i \in 1..Len(requests) : requests[i] = p}) = 1
               ELSE \E p \in asked : requests = <<p>>]_vars

\* a fetch of a listing of more than one page has returned, and the cache holds
\* the result of a fetch of page 2 alone
C19_Witness ==
    /\ last.op = "get_region_market"
    /\ last.status = "ok"
    /\ last.requests = PageRange(2)
    /\ \E e \in api_cache : /\ e.key[1] = "get_region_market"
                            /\ ExplicitPages(e.key) = {2}

\* the tasks of the running bulk history call that this step moves on
TasksMoved ==
    IF hist'.phase = "running" /\ hist.phase = "running"
    THEN {i \in 1..Len(hist.tasks) : hist'.tasks[i] # hist.tasks[i]}
    ELSE {}

\* C20: the tasks of a bulk history call interleave only where they wait for
\* the validity check or for the history request.  The freshness reads of the
\* tasks are made on one state of market_history and change nothing; a step
\* moves on one task; market_history changes only in the step in which one task
\* gets its response, by the whole upsert of that task, which ends the task;
\* and get_market_history returns a result only when every task has ended.
C20_TasksInterleaveAtRemoteCalls ==
    [][/\ (hist.phase = "idle" /\ hist'.phase = "running")
            => /\ market_history' = market_history
               /\ \A i \in 1..Len(hist'.tasks) :
                    LET task == hist'.tasks[i]
                        d == HistoryUpdateOrNot(now, market_history, RegionId,
                                                task.type_id)
                    IN  IF d.update_flag
                        THEN task.pc = "check" /\ task.result = None
                        ELSE /\ task.pc = "done"
                             /\ task.result
                                  = Some(SelectHistory(market_history, RegionId,
                                                       task.type_id))
       /\ hist.phase = "running"
            => /\ Cardinality(TasksMoved) <= 1
               /\ market_history' # market_history
                    => \E i \in TasksMoved :
                         /\ hist.tasks[i].pc = "request"
                         /\ hist'.tasks[i].pc = "done"
                         /\ ~hist'.tasks[i].result.isNone
                         /\ market_history'
                              = HistoryToSql(market_history, hist'.tasks[i].result.df)
               /\ (hist'.phase = "idle" /\ last'.status = "ok")
                    => \A i \in 1..Len(hist.tasks) : hist.tasks[i].pc = "done"]_vars

\* a task has upserted its rows and ended while a task scheduled before it
\* still waits for its response
C20_Witness ==
    /\ hist.phase = "running"
    /\ hist.obs.wrote
    /\ \E i, j \in 1..Len(hist.tasks) :
         /\ i < j
         /\ hist.tasks[i].pc = "request"
         /\ hist.tasks[j].pc = "done"
         /\ ~hist.tasks[j].result.isNone

\* the positive update_threshold values the keywords in the cache key k give
GivenThresholds(k) == {o[2] : o \in {o \in k[3] : o[1] = "update_threshold" /\ o[2] > 0}}

\* C21: a value get_structure_market or get_region_market returns to a call
\* with an explicit positive update_threshold U, be it from the cache, from the
\* store on the Fresh path or from a fetch, has only rows whose retrieve_time
\* is at most U seconds before the time of the call.
C21_ReturnedRowsAreWithinThreshold ==
    [][(/\ gen' = gen
        /\ now' = now
        /\ last'.op \in {"get_structure_market", "get_region_market"}
        /\ last'.status = "ok")
       => \A U \in GivenThresholds(last'.key) :
            /\ ~last'.value.isNone
            /\ \A i \in 1..Len(last'.value.df) :
                 /\ last'.value.df[i].retrieve_time <= now
                 /\ now - last'.value.df[i].retrieve_time <= U]_vars

\* a call with an explicit positive update_threshold has been answered from the
\* store with rows fetched before the time of the call
C21_Witness ==
    /\ FreshPath
    /\ GivenThresholds(last.key) # {}
    /\ \E i \in 1..Len(last.value.df) : last.value.df[i].retrieve_time < now

\* the cache entry e holds the frame of a fetch of get_region_market that has
\* written rows with the retrieve_time the oracle gave the last call, and that
\* covers the query of the last call: the same region, every page, every side or
\* the side asked for, every type or the type asked for
CoveringFetch(e) ==
    /\ e.key[1] = "get_region_market"
    /\ e.key[2][1] = last.key[2][1]
    /\ ExplicitPages(e.key) = {}
    /\ e.key[2][2] \in {"all", last.key[2][2]}
    /\ e.key[2][3] \in {NoType, last.key[2][3]}
    /\ ~e.value.isNone
    /\ \E i \in 1..Len(e.value.df) :
         e.value.df[i].retrieve_time = last.retrieve_time.df

\* C22: when get_region_market without an explicit page is answered on the
\* Fresh path, the rows of the store with the retrieve_time the oracle gave
\* were written by a fetch that covers the query (every fetch that returns has
\* stored its frame in api_cache under its arguments); the rows of a narrower
\* fetch are never served as the whole answer to another query.
C22_FreshSnapshotCoversQuery ==
    (/\ last.op = "get_region_market"
     /\ last.status = "ok"
     /\ last.read
     /\ ExplicitPages(last.key) = {})
    => \E e \in api_cache : CoveringFetch(e)

====
